---- MODULE Spec2Model ----
(***************************************************************************)
(* The forecasting core of chainintel-mvp: the NetworkForecaster object    *)
(* of backend/models/forecaster.py and the calls made on it, the handler   *)
(* of POST /api/analytics/forecast (backend/routes/analytics.py) that      *)
(* drives it, and the history simulator of backend/data/dimo_client.py.    *)
(*                                                                         *)
(* Calendar dates are 'YYYY-MM-DD' strings in the program; here a string   *)
(* is the triple <<y, m, d>> and a pandas Timestamp is a day ordinal.      *)
(* Floating-point values are fixed-point integers in units of 1/Scale;     *)
(* a float that is inf or nan is the string "inf", "-inf" or "nan".        *)
(***************************************************************************)
EXTENDS Integers, Sequences, FiniteSets, TLC

VARIABLES
    model,            \* forecaster.model: Nothing or Some Prophet object
    training_data,    \* forecaster.training_data: Nothing or Some DataFrame (ds, y)
    forecast_result,  \* forecaster.forecast_result: Nothing or Some DataFrame
    op,               \* the call that produced ret
    arg,              \* its argument
    ret,              \* what the call returned to its caller
    obs               \* what the call's local variables held

vars == <<model, training_data, forecast_result, op, arg, ret, obs>>

None == "None"

Abs(x) == IF x < 0 THEN -x ELSE x
Min(a, b) == IF a <= b THEN a ELSE b

\* an attribute that may hold Python's None: Nothing, or Some(value)
Nothing == <<>>
Some(x) == <<x>>

----------------------------------------------------------------------------
(* Bounds of the model *)

MaxRecords == 3      \* longest list of historical records supplied
MaxHorizon == 181    \* largest days_ahead requested
MaxTestSize == 3     \* largest test_size passed to validate_model
MaxSeries == 4       \* longest date-ordered series supplied for validation
MaxDays == 7         \* largest number of days asked of the simulator
Scale == 2           \* resolution of a float: units of 1/Scale

----------------------------------------------------------------------------
(* Calendar: pd.to_datetime on 'YYYY-MM-DD' and Timestamp.strftime *)

Years == 2023..2025
FirstYear == CHOOSE y \in Years : \A z \in Years : y <= z

IsLeap(y) == (y % 4 = 0 /\ y % 100 # 0) \/ y % 400 = 0

DaysInMonth(y, m) ==
    IF m = 2 THEN (IF IsLeap(y) THEN 29 ELSE 28)
    ELSE IF m \in {4, 6, 9, 11} THEN 30 ELSE 31

RECURSIVE DaysBeforeMonth(_, _)
DaysBeforeMonth(y, m) ==
    IF m = 1 THEN 0 ELSE DaysBeforeMonth(y, m - 1) + DaysInMonth(y, m - 1)

RECURSIVE DaysBeforeYear(_)
DaysBeforeYear(y) ==
    IF y = FirstYear THEN 0
    ELSE DaysBeforeYear(y - 1) + (IF IsLeap(y - 1) THEN 366 ELSE 365)

\* pd.to_datetime('YYYY-MM-DD'): the day ordinal of a date string
to_datetime(s) == DaysBeforeYear(s[1]) + DaysBeforeMonth(s[1], s[2]) + (s[3] - 1)

\* the date string of a day ordinal, by the calendar
DateString(n) ==
    LET y == CHOOSE yy \in Years :
                 DaysBeforeYear(yy) <= n /\ n < DaysBeforeYear(yy + 1)
        r == n - DaysBeforeYear(y)
        m == CHOOSE mm \in 1..12 :
                 DaysBeforeMonth(y, mm) <= r
                 /\ r < DaysBeforeMonth(y, mm) + DaysInMonth(y, mm)
    IN <<y, m, r - DaysBeforeMonth(y, m) + 1>>

\* Timestamp.strftime('%Y-%m-%d'), tabulated over the days of Years
DateStrings == [n \in 0..(DaysBeforeYear(FirstYear + 3) - 1) |-> DateString(n)]
strftime(n) == DateStrings[n]

\* the calendar day after a date string, by the calendar's own rules
NextDay(s) ==
    IF s[3] < DaysInMonth(s[1], s[2]) THEN <<s[1], s[2], s[3] + 1>>
    ELSE IF s[2] < 12 THEN <<s[1], s[2] + 1, 1>>
    ELSE <<s[1] + 1, 1, 1>>

----------------------------------------------------------------------------
(* Inputs *)

InputDates == { <<2023, 12, 30>>, <<2023, 12, 31>> }
InputValues == {0, 10}

HistoricalRecord == [date : InputDates, total_vehicles : InputValues]

RecordLists == UNION { [1..n -> HistoricalRecord] : n \in 0..MaxRecords }

\* date-ordered record lists without duplicate dates, up to MaxSeries long
SeriesDates ==
    { <<2023, 12, 30>>, <<2023, 12, 31>>, <<2024, 1, 1>>, <<2024, 1, 2>> }
SeriesLists ==
    { s \in UNION { [1..n -> [date : SeriesDates, total_vehicles : InputValues]]
                      : n \in 0..Min(MaxSeries, Cardinality(SeriesDates)) } :
        \A i \in 1..(Len(s) - 1) : to_datetime(s[i].date) < to_datetime(s[i + 1].date) }

\* the date-ordered record lists of at most two records on the input dates
RetrainLists ==
    { s \in SeriesLists :
        Len(s) <= 2 /\ \A i \in 1..Len(s) : s[i].date \in InputDates }

Horizons == {0, 1, 29, 30, 31, 90, 91, 179, 180, MaxHorizon}
TestSizes == 1..MaxTestSize
ShortHorizons == {0, 1, 31}
RouteHorizons == {0, 31}

----------------------------------------------------------------------------
(* NetworkForecaster.prepare_data *)

\* DataFrame.sort_values('ds').reset_index(drop=True): rows in ascending ds,
\* rows of equal ds in their input order (the sort numpy applies to arrays
\* this short is an insertion sort)
RECURSIVE InsertRow(_, _)
InsertRow(sorted, row) ==
    IF sorted = <<>> THEN <<row>>
    ELSE IF sorted[Len(sorted)].ds <= row.ds THEN Append(sorted, row)
    ELSE Append(InsertRow(SubSeq(sorted, 1, Len(sorted) - 1), row),
                sorted[Len(sorted)])

RECURSIVE InsertionSort(_)
InsertionSort(df) ==
    IF df = <<>> THEN <<>>
    ELSE InsertRow(InsertionSort(SubSeq(df, 1, Len(df) - 1)), df[Len(df)])

\* a frame already in ascending ds is its own sort
sort_values(df) ==
    IF \A i \in 1..(Len(df) - 1) : df[i].ds <= df[i + 1].ds THEN df
    ELSE InsertionSort(df)

\* the result of a call: ok = it returned, otherwise exc names the exception
Returned(v) == [ok |-> TRUE, val |-> v, exc |-> None]
Raised(e) == [ok |-> FALSE, val |-> None, exc |-> e]

prepare_data(historical_data) ==
    IF historical_data = <<>>
    THEN Raised("KeyError")          \* pd.DataFrame([])['date']
    ELSE Returned(sort_values(
             [i \in 1..Len(historical_data) |->
                 [ds |-> to_datetime(historical_data[i].date),
                  y |-> historical_data[i].total_vehicles]]))

----------------------------------------------------------------------------
(* Arithmetic on floats *)

\* int(a / b) for b > 0: Python's int() truncates toward zero
Trunc(a, b) == IF a >= 0 THEN a \div b ELSE -((-a) \div b)

\* round(a / b, 2) for b > 0, in hundredths: the nearest hundredth, ties to
\* the even one
Round2(a, b) ==
    LET n == Abs(a) * 100
        q == n \div b
        r == n % b
        up == (2 * r > b) \/ (2 * r = b /\ q % 2 = 1)
        mag == IF up THEN q + 1 ELSE q
    IN IF a >= 0 THEN mag ELSE -mag

\* a finite float holding num/den, and the floats numpy yields on x / 0
Finite(hundredths) == [kind |-> "finite", val |-> hundredths]
NonFinite(k) == [kind |-> k, val |-> 0]
DivByZero(a) == IF a > 0 THEN NonFinite("inf")
                ELSE IF a < 0 THEN NonFinite("-inf") ELSE NonFinite("nan")

----------------------------------------------------------------------------
(* The Prophet estimator, as the forecaster uses it.  A fitted model keeps
   the frame it was fitted on (history) and the fitted trend: yhat at day ds
   is k + m * (ds - start), in units of 1/Scale, with an uncertainty
   interval of half-width w around it.  Which trend the optimiser settles on
   is not decided by this program: fit chooses one. *)

Intercepts == {1}
Slopes == {-3, 0, 5}
Widths == {1}
\* the change of slope at the changepoint
Deltas == {0, 2}
FitParams == [k : Intercepts, m : Slopes, w : Widths, d : Deltas]

TrainConfig ==
    [daily_seasonality |-> FALSE, weekly_seasonality |-> FALSE,
     yearly_seasonality |-> FALSE, seasonality_mode |-> "additive",
     growth |-> "linear", changepoint_prior_scale |-> "0.001",
     interval_width |-> "0.90"]

ValidateConfig ==
    [daily_seasonality |-> FALSE, weekly_seasonality |-> TRUE,
     yearly_seasonality |-> TRUE, seasonality_mode |-> "multiplicative",
     growth |-> "linear", changepoint_prior_scale |-> "0.05",
     interval_width |-> "0.90"]

\* Prophet(**config): an estimator that has not been fitted
Prophet(config) ==
    [config |-> config, fitted |-> FALSE, history |-> <<>>,
     params |-> [k |-> 0, m |-> 0, w |-> 0, d |-> 0]]

DsSet(df) == { df[i].ds : i \in 1..Len(df) }
\* the latest and the earliest ds among rows lo..hi of a frame
RECURSIVE MaxDsBetween(_, _, _)
MaxDsBetween(df, lo, hi) ==
    IF lo = hi THEN df[lo].ds
    ELSE LET mid == (lo + hi) \div 2
             a == MaxDsBetween(df, lo, mid)
             b == MaxDsBetween(df, mid + 1, hi)
         IN IF a >= b THEN a ELSE b

RECURSIVE MinDsBetween(_, _, _)
MinDsBetween(df, lo, hi) ==
    IF lo = hi THEN df[lo].ds
    ELSE LET mid == (lo + hi) \div 2
             a == MinDsBetween(df, lo, mid)
             b == MinDsBetween(df, mid + 1, hi)
         IN IF a <= b THEN a ELSE b

MaxDs(df) == MaxDsBetween(df, 1, Len(df))
MinDs(df) == MinDsBetween(df, 1, Len(df))

\* Prophet places its changepoints on history rows after the first, none
\* when the history has fewer than 3 rows; the trend modelled here bends at
\* the first of them, the second row of the history
HasChangepoint(df) == Len(df) >= 3
Changepoint(df) == df[2].ds

\* Prophet.fit(df): the set of outcomes.  Fewer than 2 rows is a ValueError;
\* rows that all carry one date leave the time scale zero, and whether the
\* optimiser then fails is not decided here.
fit(m, df) ==
    IF Len(df) < 2 THEN { Raised("ValueError") }
    ELSE { Returned([m EXCEPT !.fitted = TRUE, !.history = df, !.params = p])
             : p \in { q \in FitParams : HasChangepoint(df) \/ q.d = 0 } }
         \cup (IF Cardinality(DsSet(df)) = 1 THEN { Raised("Exception") } ELSE {})

\* the dates 1..n days after d, ascending
DaysAfter(d, n) == [i \in 1..n |-> d + i]

\* the distinct ds of a frame in ascending ds, ascending
UniqueDs(df) ==
    LET first == [i \in 1..Len(df) |-> i = 1 \/ df[i].ds # df[i - 1].ds]
        firsts == SelectSeq([i \in 1..Len(df) |-> i], LAMBDA i : first[i])
    IN [k \in 1..Len(firsts) |-> df[firsts[k]].ds]

\* Prophet.make_future_dataframe(periods, freq='D'): the history dates
\* followed by `periods` daily dates after the last of them
make_future_dataframe(m, periods) ==
    IF ~m.fitted THEN Raised("Exception")
    ELSE Returned(UniqueDs(sort_values(m.history))
                  \o DaysAfter(MaxDs(m.history), periods))

\* one row of a prediction: Prophet places yhat inside its uncertainty
\* interval, yhat_lower <= yhat <= yhat_upper
PredictRow(m, ds) ==
    LET bend == IF HasChangepoint(m.history) /\ ds > Changepoint(m.history)
                THEN m.params.d * (ds - Changepoint(m.history)) ELSE 0
        yhat == m.params.k + m.params.m * (ds - MinDs(m.history)) + bend
    IN [ds |-> ds, trend |-> yhat, yhat |-> yhat,
        yhat_lower |-> yhat - m.params.w, yhat_upper |-> yhat + m.params.w]

\* Prophet.predict(dates): one row per date
predict(m, dates) ==
    IF ~m.fitted THEN Raised("Exception")
    ELSE Returned([i \in 1..Len(dates) |-> PredictRow(m, dates[i])])

----------------------------------------------------------------------------
(* NetworkForecaster: an object is [model, training_data, forecast_result];
   a method yields the object after the call and what the call returned *)

\* NetworkForecaster.__init__
NewForecaster ==
    [model |-> Nothing, training_data |-> Nothing, forecast_result |-> Nothing]

Outcome(self, r, o) == [self |-> self, ret |-> r, obs |-> o]

EmptyDict == [empty |-> TRUE]

\* NetworkForecaster.train_model: the set of outcomes
train_model(self, historical_data) ==
    LET prep == prepare_data(historical_data)
    IN IF ~prep.ok THEN { Outcome(self, Returned(FALSE), None) }
       ELSE LET s1 == [self EXCEPT !.training_data = Some(prep.val),
                                   !.model = Some(Prophet(TrainConfig))]
            IN { IF f.ok
                 THEN Outcome([s1 EXCEPT !.model = Some(f.val)], Returned(TRUE), None)
                 ELSE Outcome(s1, Returned(FALSE), None)
                   : f \in fit(s1.model[1], s1.training_data[1]) }

\* DataFrame.iloc[i] on a frame of n rows: a row, or IndexError; a negative
\* i counts from the end
iloc(df, i) ==
    LET n == Len(df)
    IN IF i >= 0 THEN (IF i < n THEN Returned(df[i + 1]) ELSE Raised("IndexError"))
       ELSE (IF -i <= n THEN Returned(df[n + i + 1]) ELSE Raised("IndexError"))

\* forecast[forecast['ds'] > d]
\* (mutation of RowsAfter: the comparison written >=)
RowsFrom(df, d) == SelectSeq(df, LAMBDA row : row.ds >= d)

RowsAfter(df, d) == SelectSeq(df, LAMBDA row : row.ds > d)

\* (mutation of Prediction: the two bound columns exchanged)
PredictionBoundsExchanged(row) ==
    [date |-> strftime(row.ds),
     predicted_vehicles |-> Trunc(row.yhat, Scale),
     lower_bound |-> Trunc(row.yhat_upper, Scale),
     upper_bound |-> Trunc(row.yhat_lower, Scale),
     confidence |-> "0.90"]

\* one entry of `predictions`
Prediction(row) ==
    [date |-> strftime(row.ds),
     predicted_vehicles |-> Trunc(row.yhat, Scale),
     lower_bound |-> Trunc(row.yhat_lower, Scale),
     upper_bound |-> Trunc(row.yhat_upper, Scale),
     confidence |-> "0.90"]

\* round(((yhat - last) / last) * 100, 2): last is a numpy integer, so a
\* zero last yields inf, -inf or nan instead of raising
GrowthPercentage(yhat, last) ==
    IF last = 0 THEN DivByZero(yhat)
    ELSE IF last > 0 THEN Finite(Round2((yhat - last * Scale) * 100, last * Scale))
    ELSE Finite(Round2(-(yhat - last * Scale) * 100, -last * Scale))

\* one entry of `growth_metrics`
Milestone(row, last) ==
    [predicted_vehicles |-> Trunc(row.yhat, Scale),
     growth_from_current |-> Trunc(row.yhat - last * Scale, Scale),
     growth_percentage |-> GrowthPercentage(row.yhat, last)]

\* the index of the row taken for the 30-, 90- and 180-day milestone
\* (mutation of End90Index: the index one too far)
End90IndexOneOff(n) == Min(90, n - 1)

End30Index(n) == Min(29, n - 1)
End90Index(n) == Min(89, n - 1)
End180Index(n) == IF n >= 180 THEN Min(179, n - 1) ELSE -1

\* NetworkForecaster.generate_forecast
generate_forecast(self, days_ahead) ==
    IF self.model = Nothing THEN Outcome(self, Returned(EmptyDict), None)
    ELSE
    LET future == make_future_dataframe(self.model[1], days_ahead)
    IN IF ~future.ok THEN Outcome(self, Returned(EmptyDict), None)
       ELSE
       LET forecast == predict(self.model[1], future.val).val
           s1 == [self EXCEPT !.forecast_result = Some(forecast)]
           td == self.training_data[1]
           last_historical_date == MaxDs(td)
           last_historical_value == td[Len(td)].y
           future_forecast == RowsAfter(forecast, last_historical_date)
           n == Len(future_forecast)
           end_30_days == iloc(future_forecast, End30Index(n))
           end_90_days == iloc(future_forecast, End90Index(n))
           end_180_days == iloc(future_forecast, End180Index(n))
       IN IF ~end_30_days.ok \/ ~end_90_days.ok \/ ~end_180_days.ok
          THEN Outcome(s1, Returned(EmptyDict), None)
          ELSE Outcome(s1, Returned(
              [empty |-> FALSE,
               model_type |-> "prophet",
               forecast_horizon |-> days_ahead,
               current_vehicles |-> last_historical_value,
               current_date |-> strftime(last_historical_date),
               predictions |-> [i \in 1..n |-> Prediction(future_forecast[i])],
               growth_metrics |->
                   [d30 |-> Milestone(end_30_days.val, last_historical_value),
                    d90 |-> Milestone(end_90_days.val, last_historical_value),
                    d180 |-> Milestone(end_180_days.val, last_historical_value)],
               avg_daily_growth |->
                   Trunc(end_90_days.val.yhat - last_historical_value * Scale,
                         Scale * 90),
               confidence_level |-> "0.90"]), None)

----------------------------------------------------------------------------
(* NetworkForecaster.validate_model *)

\* df[:-k] and df[-k:] for k >= 0, as Python slices them
\* (mutation of SliceHead: the split one row late, so the training set takes
\* the first held-out row)
SliceHeadOneMore(df, k) == IF k = 0 THEN <<>> ELSE SubSeq(df, 1, Len(df) - k + 1)

SliceHead(df, k) == IF k = 0 THEN <<>> ELSE SubSeq(df, 1, Len(df) - k)
SliceTail(df, k) == IF k = 0 \/ k >= Len(df) THEN df
               ELSE SubSeq(df, Len(df) - k + 1, Len(df))

RECURSIVE SumBetween(_, _, _)
SumBetween(s, lo, hi) ==
    IF lo > hi THEN 0
    ELSE IF lo = hi THEN s[lo]
    ELSE LET mid == (lo + hi) \div 2
         IN SumBetween(s, lo, mid) + SumBetween(s, mid + 1, hi)

Sum(s) == SumBetween(s, 1, Len(s))

RECURSIVE Gcd(_, _)
Gcd(a, b) == IF b = 0 THEN a ELSE Gcd(b, a % b)

\* the least common multiple of the positive numbers of s
RECURSIVE Lcm(_)
Lcm(s) ==
    IF s = <<>> THEN 1
    ELSE LET rest == Lcm(SubSeq(s, 1, Len(s) - 1))
         IN (rest \div Gcd(rest, s[Len(s)])) * s[Len(s)]

\* the largest r in lo..hi with r * r <= x
RECURSIVE SqrtBetween(_, _, _)
SqrtBetween(x, lo, hi) ==
    IF lo = hi THEN lo
    ELSE LET mid == (lo + hi + 1) \div 2
         IN IF mid * mid <= x THEN SqrtBetween(x, mid, hi)
            ELSE SqrtBetween(x, lo, mid - 1)

\* round((a / b) ** 0.5, 2) for a >= 0, b > 0, in hundredths: with
\* X = 10000 * a / b and r the whole part of its root, r + 1 when
\* X >= (r + 1/2) ^ 2 and r otherwise
RoundSqrt2(a, b) ==
    LET rem == ((a % b) * 10000) % b
        x == (a \div b) * 10000 + ((a % b) * 10000) \div b
        r == SqrtBetween(x, 0, Min(x, 46340))
    IN IF x > r * r + r \/ (x = r * r + r /\ 4 * rem >= b) THEN r + 1 ELSE r

\* the points of y_true, y_pred: true value t and error err = t - yhat, the
\* error in units of 1/Scale
ErrorPoints(test_data, forecast) ==
    [i \in 1..Len(test_data) |->
        [t |-> test_data[i].y, err |-> test_data[i].y * Scale - forecast[i].yhat]]

\* np.mean(np.abs(err / t)) * 100 over points whose t is not zero, rounded
MeanAbsPct(pts) ==
    LET ts == [i \in 1..Len(pts) |-> Abs(pts[i].t)]
        num == Sum([i \in 1..Len(pts) |->
                      Abs(pts[i].err) * (Lcm(ts) \div ts[i])])
    IN Finite(Round2(num * 100, Scale * Lcm(ts) * Len(pts)))

\* np.mean(np.abs((y_true - y_pred) / y_true)) * 100, rounded: a zero true
\* value makes its term inf (nan when the error is zero too), and the mean
\* with it
mape(pts) ==
    IF \E i \in 1..Len(pts) : pts[i].t = 0 /\ pts[i].err = 0 THEN NonFinite("nan")
    ELSE IF \E i \in 1..Len(pts) : pts[i].t = 0 THEN NonFinite("inf")
    ELSE MeanAbsPct(pts)

\* mean_absolute_error, rounded
mae(pts) ==
    Finite(Round2(Sum([i \in 1..Len(pts) |-> Abs(pts[i].err)]), Scale * Len(pts)))

\* np.sqrt(mean_squared_error), rounded
rmse(pts) ==
    Finite(RoundSqrt2(Sum([i \in 1..Len(pts) |-> pts[i].err * pts[i].err]),
                      Scale * Scale * Len(pts)))

Dates(df) == [i \in 1..Len(df) |-> df[i].ds]

\* what validate_model's locals held when it returned
ValidateObs(train_data, test_data, temp_model, forecast) ==
    [train_data |-> train_data, test_data |-> test_data,
     temp_model |-> temp_model, forecast |-> forecast]

\* (mutation of validate_model: the fitted estimator kept as self.model)
validate_model_refitting_self(self, test_size) ==
    IF self.model = Nothing \/ self.training_data = Nothing
    THEN { Outcome(self, Returned(EmptyDict), None) }
    ELSE
    LET train_data == SliceHead(self.training_data[1], test_size)
        test_data == SliceTail(self.training_data[1], test_size)
        temp_model == Prophet(ValidateConfig)
    IN { IF ~f.ok
         THEN Outcome(self, Returned(EmptyDict),
                      ValidateObs(train_data, test_data, temp_model, <<>>))
         ELSE LET forecast == predict(f.val, Dates(test_data)).val
                  pts == ErrorPoints(test_data, forecast)
              IN Outcome([self EXCEPT !.model = Some(f.val)],
                         Returned([empty |-> FALSE, mae |-> mae(pts),
                                   rmse |-> rmse(pts), mape |-> mape(pts),
                                   test_size |-> test_size]),
                         ValidateObs(train_data, test_data, f.val, forecast))
           : f \in fit(temp_model, train_data) }

\* NetworkForecaster.validate_model: the set of outcomes
validate_model(self, test_size) ==
    IF self.model = Nothing \/ self.training_data = Nothing
    THEN { Outcome(self, Returned(EmptyDict), None) }
    ELSE
    LET train_data == SliceHead(self.training_data[1], test_size)
        test_data == SliceTail(self.training_data[1], test_size)
        temp_model == Prophet(ValidateConfig)
    IN { IF ~f.ok
         THEN Outcome(self, Returned(EmptyDict),
                      ValidateObs(train_data, test_data, temp_model, <<>>))
         ELSE LET forecast == predict(f.val, Dates(test_data)).val
                  pts == ErrorPoints(test_data, forecast)
              IN Outcome(self,
                         Returned([empty |-> FALSE, mae |-> mae(pts),
                                   rmse |-> rmse(pts), mape |-> mape(pts),
                                   test_size |-> test_size]),
                         ValidateObs(train_data, test_data, f.val, forecast))
           : f \in fit(temp_model, train_data) }

----------------------------------------------------------------------------
(* NetworkForecaster.get_trend_analysis *)

\* trend['trend'].diff(), without its leading NaN
DailyChange(df) == [i \in 1..(Len(df) - 1) |-> df[i + 1].trend - df[i].trend]

\* the daily_change values among the first / last k rows of the frame; the
\* first row's value is NaN and is skipped by mean()
HeadChanges(df, k) == SubSeq(DailyChange(df), 1, Min(k, Len(df)) - 1)
TailChanges(df, k) ==
    LET dc == DailyChange(df)
    IN SubSeq(dc, Len(dc) - Min(k, Len(df) - 1) + 1, Len(dc))

\* trend.head(k) and trend.tail(k): the first / last k rows, all of them when
\* the frame has fewer
HeadRows(df, k) == SubSeq(df, 1, Min(k, Len(df)))
TailRows(df, k) == SubSeq(df, Len(df) - Min(k, Len(df)) + 1, Len(df))

\* Series.mean() of values in units of 1/Scale, as the fraction sum / count;
\* NaN for no values
Mean(s) == [sum |-> Sum(s), count |-> Len(s) * Scale]

RoundMean(mn) ==
    IF mn.count = 0 THEN NonFinite("nan") ELSE Finite(Round2(mn.sum, mn.count))

\* (mutation of growth_momentum: the division without its guard)
growth_momentum_unguarded(recent, historical) ==
    IF recent.count = 0 \/ historical.count = 0 THEN NonFinite("nan")
    ELSE IF historical.sum = 0 THEN DivByZero(recent.sum)
    ELSE LET num == (recent.sum * historical.count - recent.count * historical.sum) * 100
             den == recent.count * historical.sum
         IN IF den > 0 THEN Finite(Round2(num, den)) ELSE Finite(Round2(-num, -den))

\* round((recent / historical - 1) * 100, 2) if historical != 0 else 0
growth_momentum(recent, historical) ==
    IF recent.count = 0 \/ historical.count = 0 THEN NonFinite("nan")
    ELSE IF historical.sum = 0 THEN Finite(0)
    ELSE LET num == (recent.sum * historical.count - recent.count * historical.sum) * 100
             den == recent.count * historical.sum
         IN IF den > 0 THEN Finite(Round2(num, den)) ELSE Finite(Round2(-num, -den))

\* (mutation of trend_direction: the comparison written >=)
trend_direction_or_equal(recent, historical) ==
    IF recent.count # 0 /\ historical.count # 0
       /\ recent.sum * historical.count >= historical.sum * recent.count
    THEN "accelerating" ELSE "decelerating"

\* "accelerating" if recent_trend > historical_trend else "decelerating"
trend_direction(recent, historical) ==
    IF recent.count # 0 /\ historical.count # 0
       /\ recent.sum * historical.count > historical.sum * recent.count
    THEN "accelerating" ELSE "decelerating"

\* NetworkForecaster.get_trend_analysis
get_trend_analysis(self) ==
    IF self.forecast_result = Nothing THEN Outcome(self, Returned(EmptyDict), None)
    ELSE
    LET trend == self.forecast_result[1]
        recent_trend == Mean(TailChanges(trend, 30))
        historical_trend == Mean(HeadChanges(trend, 30))
    IN Outcome(self, Returned(
           [empty |-> FALSE,
            avg_daily_trend_change |-> RoundMean(Mean(DailyChange(trend))),
            recent_30day_trend |-> RoundMean(recent_trend),
            historical_30day_trend |-> RoundMean(historical_trend),
            trend_direction |-> trend_direction(recent_trend, historical_trend),
            growth_momentum |-> growth_momentum(recent_trend, historical_trend)]),
         [recent |-> TailRows(trend, 30), historical |-> HeadRows(trend, 30)])

----------------------------------------------------------------------------
(* DIMOClient.get_historical_data_simulation *)

\* the estimate used when the network count is unavailable
DefaultTotal == 140000
base_daily_growth == 150
MinStartingTotal == 100000

\* random.seed(42) followed by random.randint(-8, 8), call after call
SeededVariance == <<-5, -8, 0, -1, -1, -4, -5, -6, 5, -7, -8, -6>>

\* what get_total_vehicles() returns: None when the query fails, or the count
NetworkTotals == { Nothing, Some(0), Some(100900), Some(150000) }

\* the requested numbers of days, and the days the clock may show
DaysRequested == 0..MaxDays
Todays == { to_datetime(<<2024, 1, 2>>), to_datetime(<<2024, 3, 2>>) }

Max(a, b) == IF a >= b THEN a ELSE b

\* get_historical_data_simulation(days), given what get_total_vehicles()
\* returned and the clock: utcnow() is read once per record and shows `today`
\* for the first `midnight` records and the day after for the others
get_historical_data_simulation(days, total, today, midnight) ==
    LET current_total == IF total = Nothing \/ total = Some(0)
                         THEN DefaultTotal ELSE total[1]
        starting_total == Max(MinStartingTotal, current_total - days * base_daily_growth)
        utcnow(day_index) == IF day_index < midnight THEN today ELSE today + 1
        record(day_index) ==
            LET date == utcnow(day_index) - (days - day_index - 1)
                daily_variance == SeededVariance[day_index + 1]
            IN [date |-> strftime(date),
                total_vehicles |-> starting_total + day_index * base_daily_growth
                                       + daily_variance,
                new_vehicles |-> base_daily_growth + daily_variance,
                timestamp |-> date]
        historical_data == [i \in 1..days |-> record(i - 1)]
    IN \* the closing log line reads historical_data[0] and historical_data[-1]
       IF historical_data = <<>> THEN Raised("IndexError")
       ELSE Returned(historical_data)

----------------------------------------------------------------------------
(* routes/analytics.py: POST /api/analytics/forecast *)

\* the days of history asked of the store and of the simulator, and the
\* test_size passed to validate_model
HistoryDays == 90
RouteTestSize == 14

\* what db.get_historical_data(days=90) returned: rows in date order, one
\* per date; [] when the store has no client, no rows, or failed
StoredLists == RetrainLists

\* what dimo_client.get_historical_data_simulation(days=90) returned: one
\* record for each of the HistoryDays days that end at the clock's day, the
\* counts positive and taken from the input values
SimulatedList(today, v) ==
    [i \in 1..HistoryDays |->
        [date |-> strftime(today - (HistoryDays - i)), total_vehicles |-> v]]
SimulatedLists ==
    { SimulatedList(to_datetime(<<2024, 3, 2>>), v) : v \in InputValues \ {0} }

\* raise HTTPException(status_code=500, detail=...)
HTTPException == Raised("HTTPException")

\* what the handler leaves to be seen: which attributes of the forecaster
\* it found set when it started, the steps it went through, and the detail
\* of its error
RouteObs(found, steps, detail) ==
    [found |-> [model |-> found.model # Nothing,
                training_data |-> found.training_data # Nothing,
                forecast_result |-> found.forecast_result # Nothing],
     steps |-> steps, detail |-> detail]

\* the steps train_model went through: prepare_data, then fit unless
\* prepare_data raised
TrainSteps(historical_data) ==
    IF prepare_data(historical_data).ok THEN <<"prepare", "fit">> ELSE <<"prepare">>

\* (mutation of generate_forecast_route: validate_model called before
\* generate_forecast)
generate_forecast_route_validating_first(self, stored, simulated, days_ahead) ==
    LET historical_data == IF stored = <<>> THEN simulated ELSE stored
    IN IF historical_data = <<>>
       THEN { Outcome(self, HTTPException,
                      RouteObs(self, <<>>, "No historical data available")) }
       ELSE UNION {
         LET steps1 == TrainSteps(historical_data)
         IN IF ~t.ret.val
            THEN { Outcome(t.self, HTTPException,
                           RouteObs(self, steps1,
                                    "Failed to train forecasting model")) }
            ELSE {
              LET g == generate_forecast(v.self, days_ahead)
                  a == get_trend_analysis(g.self)
              IN IF g.ret.val.empty
                 THEN Outcome(g.self, HTTPException,
                              RouteObs(self, steps1 \o <<"validate", "forecast">>,
                                       "Failed to generate forecast"))
                 ELSE Outcome(a.self,
                              Returned([empty |-> FALSE, success |-> TRUE,
                                        forecast |-> g.ret.val,
                                        validation |-> v.ret.val,
                                        trend_analysis |-> a.ret.val]),
                              RouteObs(self,
                                       steps1 \o <<"validate", "forecast",
                                                   "analyze", "assemble">>,
                                       None))
                : v \in validate_model(t.self, RouteTestSize) }
           : t \in train_model(self, historical_data) }

\* the handler generate_forecast(days_ahead) of the route, run on the
\* forecaster `self` with what the two data sources returned: the set of
\* outcomes.  The forecaster's methods and the data sources catch their own
\* exceptions, so the handler's last except clause has nothing to catch.
generate_forecast_route(self, stored, simulated, days_ahead) ==
    LET historical_data == IF stored = <<>> THEN simulated ELSE stored
    IN IF historical_data = <<>>
       THEN { Outcome(self, HTTPException,
                      RouteObs(self, <<>>, "No historical data available")) }
       ELSE UNION {
         LET steps1 == TrainSteps(historical_data)
         IN IF ~t.ret.val
            THEN { Outcome(t.self, HTTPException,
                           RouteObs(self, steps1,
                                    "Failed to train forecasting model")) }
            ELSE LET g == generate_forecast(t.self, days_ahead)
                 IN IF g.ret.val.empty
                    THEN { Outcome(g.self, HTTPException,
                                   RouteObs(self, steps1 \o <<"forecast">>,
                                            "Failed to generate forecast")) }
                    ELSE {
                      LET a == get_trend_analysis(v.self)
                      IN Outcome(a.self,
                                 Returned([empty |-> FALSE, success |-> TRUE,
                                           forecast |-> g.ret.val,
                                           validation |-> v.ret.val,
                                           trend_analysis |-> a.ret.val]),
                                 RouteObs(self,
                                          steps1 \o <<"forecast", "validate",
                                                      "analyze", "assemble">>,
                                          None))
                        : v \in validate_model(g.self, RouteTestSize) }
           : t \in train_model(self, historical_data) }

----------------------------------------------------------------------------
(* The callers of the forecaster: one action per call on the singleton *)

Init ==
    /\ model = NewForecaster.model
    /\ training_data = NewForecaster.training_data
    /\ forecast_result = NewForecaster.forecast_result
    /\ op = "init"
    /\ arg = None
    /\ ret = Returned(None)
    /\ obs = None

\* the forecaster object held in the state
Self ==
    [model |-> model, training_data |-> training_data,
     forecast_result |-> forecast_result]

\* a call has run: the object, the return value and the locals it leaves
Done(name, a, out) ==
    /\ model' = out.self.model
    /\ training_data' = out.self.training_data
    /\ forecast_result' = out.self.forecast_result
    /\ op' = name
    /\ arg' = a
    /\ ret' = out.ret
    /\ obs' = out.obs

\* forecaster.prepare_data(records)
CallPrepareData ==
    \E records \in RecordLists :
        Done("prepare_data", records, Outcome(Self, prepare_data(records), None))

\* forecaster.train_model(records), the records drawn from `lists`
TrainModelOn(lists) ==
    \E records \in lists :
        \E out \in train_model(Self, records) :
            Done("train_model", records, out)

CallTrainModel == TrainModelOn(RecordLists)
CallTrainModelOnSeries == TrainModelOn(SeriesLists)
CallRetrainModel == TrainModelOn(RetrainLists)

\* forecaster.generate_forecast(days_ahead)
CallGenerateForecast ==
    \E days_ahead \in Horizons :
        Done("generate_forecast", days_ahead, generate_forecast(Self, days_ahead))

\* forecaster.generate_forecast(days_ahead) for a short horizon
CallGenerateShortForecast ==
    \E days_ahead \in ShortHorizons :
        Done("generate_forecast", days_ahead, generate_forecast(Self, days_ahead))

\* forecaster.validate_model(test_size)
CallValidateModel ==
    \E test_size \in TestSizes :
        \E out \in validate_model(Self, test_size) :
            Done("validate_model", test_size, out)

\* forecaster.get_trend_analysis()
CallGetTrendAnalysis ==
    Done("get_trend_analysis", None, get_trend_analysis(Self))

\* One forecaster object from its construction through its first training
\* on records in any order, and the forecasts and trend analyses made on it.
Next ==
    \/ (model = Nothing /\ CallPrepareData)
    \/ (model = Nothing /\ CallTrainModel)
    \/ CallGenerateForecast
    \/ CallGetTrendAnalysis

Spec == Init /\ [][Next]_vars

\* One forecaster object trained again and again, with forecasts and trend
\* analyses made between the trainings.
NextRetrain ==
    \/ CallRetrainModel
    \/ CallGenerateShortForecast
    \/ CallGetTrendAnalysis

SpecRetrain == Init /\ [][NextRetrain]_vars

\* POST /api/analytics/forecast?days_ahead=...: the handler has no await and
\* runs from its first statement to its response in one step of the event
\* loop, on the forecaster every request shares
ServeForecastRequest ==
    \E stored \in StoredLists, simulated \in SimulatedLists,
       days_ahead \in RouteHorizons :
        \E out \in generate_forecast_route(Self, stored, simulated, days_ahead) :
            Done("forecast_route",
                 [days_ahead |-> days_ahead, stored |-> stored], out)

\* The service answering one forecast request after another.
NextRoute == ServeForecastRequest

SpecRoute == Init /\ [][NextRoute]_vars

\* dimo_client.get_historical_data_simulation(days)
CallSimulation ==
    \E days \in DaysRequested, total \in NetworkTotals, today \in Todays :
        \E midnight \in 0..days :
            /\ op' = "get_historical_data_simulation"
            /\ arg' = [days |-> days, total |-> total, today |-> today,
                       midnight |-> midnight]
            /\ ret' = get_historical_data_simulation(days, total, today, midnight)
            /\ obs' = None
            /\ UNCHANGED <<model, training_data, forecast_result>>

\* The simulator called for any number of days.
NextSimulation == CallSimulation

SpecSimulation == Init /\ [][NextSimulation]_vars

\* One forecaster object trained on a date-ordered series, the forecasts
\* made on it and its validations.
NextValidate ==
    \/ (model = Nothing /\ CallTrainModelOnSeries)
    \/ CallGenerateShortForecast
    \/ CallValidateModel

SpecValidate == Init /\ [][NextValidate]_vars

----------------------------------------------------------------------------
(* Properties *)

\* a Series: at least two rows, strictly increasing in date
StrictlyIncreasing(df) == \A i \in 1..(Len(df) - 1) : df[i].ds < df[i + 1].ds

IsSeries(df) == Len(df) >= 2 /\ StrictlyIncreasing(df)

\* generate_forecast(h), h >= 1, has just run on a forecaster trained on a Series
ForecastOnSeries ==
    /\ op = "generate_forecast"
    /\ arg >= 1
    /\ training_data # Nothing
    /\ IsSeries(training_data[1])

\* C1: after train_model on a series of length >= 2, generate_forecast(h) with
\* h >= 1 returns exactly h predictions; the first is dated the calendar day
\* after the last historical date and each next one the calendar day after
\* the one before it.
C1_ForecastDates ==
    ForecastOnSeries =>
        /\ ret.ok
        /\ ~ret.val.empty
        /\ Len(ret.val.predictions) = arg
        /\ ret.val.predictions[1].date =
               NextDay(strftime(training_data[1][Len(training_data[1])].ds))
        /\ \A i \in 1..(arg - 1) :
               ret.val.predictions[i + 1].date = NextDay(ret.val.predictions[i].date)

\* C1 witness: a forecast from a series whose predictions run over the year
\* end and reach the leap day
C1_Witness ==
    /\ ForecastOnSeries
    /\ ~ret.val.empty
    /\ ret.val.predictions[1].date = <<2024, 1, 1>>
    /\ \E i \in 1..Len(ret.val.predictions) :
           ret.val.predictions[i].date = <<2024, 2, 29>>

\* C2: every prediction returned by generate_forecast has
\* lower_bound <= predicted_vehicles <= upper_bound after truncation.
C2_BoundsOrdered ==
    (op = "generate_forecast" /\ ~ret.val.empty) =>
        \A i \in 1..Len(ret.val.predictions) :
            /\ ret.val.predictions[i].lower_bound
                   <= ret.val.predictions[i].predicted_vehicles
            /\ ret.val.predictions[i].predicted_vehicles
                   <= ret.val.predictions[i].upper_bound

\* C2 witness: a forecast with a negative prediction whose truncated bounds
\* differ
C2_Witness ==
    /\ op = "generate_forecast"
    /\ ~ret.val.empty
    /\ \E i \in 1..Len(ret.val.predictions) :
           /\ ret.val.predictions[i].predicted_vehicles < 0
           /\ ret.val.predictions[i].lower_bound < ret.val.predictions[i].upper_bound

\* C3: generate_forecast on a forecaster that was never fitted raises
\* ModelNotFittedError to its caller.
C3_NotFittedRaises ==
    (op = "generate_forecast" /\ model = Nothing) =>
        (~ret.ok /\ ret.exc = "ModelNotFittedError")

\* C4: preparing or training on fewer than 2 records fails with
\* InsufficientDataError.
C4_TooFewRecordsRejected ==
    (op \in {"prepare_data", "train_model"} /\ Len(arg) < 2) =>
        (~ret.ok /\ ret.exc = "InsufficientDataError")

\* C5: the frame returned by prepare_data is strictly increasing in date,
\* whatever the order and the duplicates of its input.
C5_PreparedStrictlyIncreasing ==
    (op = "prepare_data" /\ ret.ok) => StrictlyIncreasing(ret.val)

\* validate_model has just run on a forecaster whose training data is a Series
ValidateOnSeries ==
    /\ op = "validate_model"
    /\ model # Nothing
    /\ training_data # Nothing
    /\ IsSeries(training_data[1])

\* the first n - k and the last k points of the training data
Prefix(k) == SubSeq(training_data[1], 1, Len(training_data[1]) - k)
Suffix(k) == SubSeq(training_data[1], Len(training_data[1]) - k + 1,
                    Len(training_data[1]))

\* validate_model fitted its own model on exactly the first n - k points,
\* predicted exactly the dates of the last k and scored them against their
\* true values
FittedOnPrefixScoredOnSuffix(k) ==
    /\ obs.train_data = Prefix(k)
    /\ obs.temp_model.fitted
    /\ obs.temp_model.history = Prefix(k)
    /\ \A i \in 1..Len(obs.temp_model.history) :
           \A j \in 1..k : obs.temp_model.history[i].ds # Suffix(k)[j].ds
    /\ Dates(obs.forecast) = Dates(Suffix(k))
    /\ ~ret.val.empty
    /\ ret.val.test_size = k
    /\ ret.val.mae = mae(ErrorPoints(Suffix(k), obs.forecast))

C7_OversizeWindowRaises ==
    (ValidateOnSeries /\ arg >= Len(training_data[1])) =>
        (~ret.ok /\ ret.exc = "InsufficientDataError")

\* the held-out points whose true value is not zero
NonZeroPoints(pts) == SelectSeq(pts, LAMBDA pt : pt.t # 0)

\* C8: the MAPE reported by validate_model is finite and is the mean of
\* |true - predicted| / true over the held-out points with a non-zero true
\* value.
C8_MapeSkipsZeros ==
    (op = "validate_model" /\ ~ret.val.empty) =>
        LET pts == ErrorPoints(obs.test_data, obs.forecast)
        IN /\ ret.val.mape.kind = "finite"
           /\ NonZeroPoints(pts) # <<>> => ret.val.mape = MeanAbsPct(NonZeroPoints(pts))

\* C9: when the last observed value is 0, generate_forecast still returns
\* its forecast and every milestone's growth_percentage is 0.
C9_ZeroLastGrowthZero ==
    (ForecastOnSeries /\ training_data[1][Len(training_data[1])].y = 0) =>
        /\ ret.ok
        /\ ~ret.val.empty
        /\ ret.val.growth_metrics.d30.growth_percentage = Finite(0)
        /\ ret.val.growth_metrics.d90.growth_percentage = Finite(0)
        /\ ret.val.growth_metrics.d180.growth_percentage = Finite(0)

\* the row of the stored forecast dated j days after the last historical date
ForecastPointAhead(j) ==
    CHOOSE row \in { forecast_result[1][i] : i \in 1..Len(forecast_result[1]) } :
        row.ds = MaxDs(training_data[1]) + j

\* the milestone derived from the forecast point j days ahead
MilestoneAhead(j) ==
    Milestone(ForecastPointAhead(j), training_data[1][Len(training_data[1])].y)

\* C10: for h >= 1 the 30-, 90- and 180-day milestones are those of the
\* forecast points min(30, h), min(90, h) and min(180, h) days ahead.
C10_MilestonesClipped ==
    (op = "generate_forecast" /\ arg >= 1 /\ ~ret.val.empty) =>
        /\ ret.val.growth_metrics.d30 = MilestoneAhead(Min(30, arg))
        /\ ret.val.growth_metrics.d90 = MilestoneAhead(Min(90, arg))
        /\ ret.val.growth_metrics.d180 = MilestoneAhead(Min(180, arg))

\* C10 witness: a horizon beyond 180 days, whose three milestones are three
\* different points, none of them the last
C10_Witness ==
    /\ op = "generate_forecast"
    /\ arg > 180
    /\ ~ret.val.empty
    /\ ret.val.growth_metrics.d30.predicted_vehicles
           # ret.val.growth_metrics.d90.predicted_vehicles
    /\ ret.val.growth_metrics.d90.predicted_vehicles
           # ret.val.growth_metrics.d180.predicted_vehicles
    /\ ret.val.growth_metrics.d180.predicted_vehicles
           # ret.val.predictions[arg].predicted_vehicles

\* get_trend_analysis has just returned an analysis
TrendAnalysed == op = "get_trend_analysis" /\ ~ret.val.empty

\* C11: trend analysis compares the most recent 30 observed points with the
\* earliest 30 observed points: no point dated after the last observed date
\* is in either window.
C11_WindowsObservedOnly ==
    TrendAnalysed =>
        /\ \A i \in 1..Len(obs.recent) :
               obs.recent[i].ds <= MaxDs(training_data[1])
        /\ \A i \in 1..Len(obs.historical) :
               obs.historical[i].ds <= MaxDs(training_data[1])

\* the day-over-day trend changes of the two windows of the stored forecast,
\* as totals and numbers of changes
RecentTotal == Sum(TailChanges(forecast_result[1], 30))
RecentCount == Len(TailChanges(forecast_result[1], 30))
HistoricalTotal == Sum(HeadChanges(forecast_result[1], 30))
HistoricalCount == Len(HeadChanges(forecast_result[1], 30))

\* recent mean > historical mean, both windows holding a change
RecentGreater ==
    /\ RecentCount > 0
    /\ HistoricalCount > 0
    /\ RecentTotal * HistoricalCount > HistoricalTotal * RecentCount

\* C12: the direction is "accelerating" exactly when the recent-window mean
\* is strictly greater than the historical-window mean, and "decelerating"
\* in every other case, equality included.
C12_DirectionStrict ==
    TrendAnalysed =>
        /\ ret.val.trend_direction \in {"accelerating", "decelerating"}
        /\ (ret.val.trend_direction = "accelerating") <=> RecentGreater

\* C12 witness: an analysis of a trend that bends upward, reported accelerating
C12_Witness ==
    /\ TrendAnalysed
    /\ RecentGreater
    /\ ret.val.trend_direction = "accelerating"

\* C13: the momentum is (recent / historical - 1) * 100, to the two decimals
\* it is reported with, when the historical-window mean is non-zero, and 0
\* when it is zero; the analysis is then neither an error nor empty.
C13_MomentumZeroGuard ==
    (op = "get_trend_analysis" /\ forecast_result # Nothing
        /\ RecentCount > 0 /\ HistoricalCount > 0) =>
        /\ ret.ok
        /\ ~ret.val.empty
        /\ ret.val.growth_momentum.kind = "finite"
        /\ IF HistoricalTotal = 0
           THEN ret.val.growth_momentum.val = 0
           ELSE LET num == (RecentTotal * HistoricalCount
                              - HistoricalTotal * RecentCount) * 100
                    den == HistoricalTotal * RecentCount
                    \* the hundredths nearest to num / den lie within half a
                    \* hundredth of it
                IN 2 * Abs(ret.val.growth_momentum.val * den - 100 * num) <= Abs(den)

\* C13 witness: an analysis of a flat trend, the historical mean zero
C13_Witness ==
    /\ TrendAnalysed
    /\ HistoricalCount > 0
    /\ HistoricalTotal = 0
    /\ ret.val.growth_momentum = Finite(0)

\* C15: validate_model leaves the primary model, the training data and the
\* stored forecast as they were, whether it returns metrics or the empty
\* result, and its predictions are made by the temporary model, which is
\* not the primary one.
C15_ValidateLeavesPrimary ==
    [][(op' = "validate_model") =>
          /\ model' = model
          /\ training_data' = training_data
          /\ forecast_result' = forecast_result
          /\ (model # Nothing /\ training_data # Nothing /\ ret'.ok
                /\ ~ret'.val.empty) =>
                 /\ obs'.temp_model # model[1]
                 /\ obs'.temp_model.history = obs'.train_data
                 /\ obs'.forecast =
                        predict(obs'.temp_model, Dates(obs'.test_data)).val]_vars

\* C15 witness: metrics returned by a validation made while a forecast is
\* stored
C15_Witness ==
    /\ op = "validate_model"
    /\ ~ret.val.empty
    /\ forecast_result # Nothing
    /\ model # Nothing
    /\ model[1].fitted

\* C18: the model validate_model fits has the configuration of the primary
\* model train_model fitted.
C18_SameConfiguration ==
    (op = "validate_model" /\ model # Nothing /\ training_data # Nothing) =>
        obs.temp_model.config = model[1].config

\* C17: get_historical_data_simulation(days) returns a list of exactly `days`
\* daily records, for every requested number of days.
C17_ExactlyDaysRecords ==
    (op = "get_historical_data_simulation") =>
        /\ ret.ok
        /\ Len(ret.val) = arg.days

\* the model held is a fitted one and was fitted to the training data held
ModelFittedToTrainingData ==
    /\ training_data # Nothing
    /\ model[1].fitted
    /\ model[1].history = training_data[1]

\* C19: after any sequence of train_model calls, a model that is not None
\* has been successfully fitted to the current training_data (a train_model
\* call that returns False having left both as they were).
C19_ModelIsFitted == (model # Nothing) => ModelFittedToTrainingData

\* C20: a non-empty result of get_trend_analysis is computed from a forecast
\* that the current model, fitted to the current training data, produced; a
\* forecast stored before the latest train_model call or before a failed
\* generate_forecast is never analysed.
C20_AnalysedForecastCurrent ==
    TrendAnalysed =>
        /\ model # Nothing
        /\ ModelFittedToTrainingData
        /\ \E days_ahead \in ShortHorizons :
               forecast_result[1] =
                   predict(model[1],
                           make_future_dataframe(model[1], days_ahead).val).val

\* the order of the steps of a forecasting run
StepOrder == <<"prepare", "fit", "forecast", "validate", "analyze", "assemble">>

\* C14: in every forecasting run the steps occur in the order prepare, fit,
\* forecast, validate, analyze trend, assemble: a run goes through a prefix
\* of that order, each step after the one before it has finished, and a
\* response is assembled exactly by the runs that went through all of it.
C14_StepOrder ==
    (op = "forecast_route") =>
        /\ Len(obs.steps) <= Len(StepOrder)
        /\ obs.steps = SubSeq(StepOrder, 1, Len(obs.steps))
        /\ ret.ok <=> (obs.steps = StepOrder)

\* C14 witness: a request answered with a forecast, validation metrics and a
\* trend analysis
C14_Witness ==
    /\ op = "forecast_route"
    /\ ret.ok
    /\ obs.steps = StepOrder
    /\ ~ret.val.forecast.empty
    /\ ~ret.val.validation.empty
    /\ ~ret.val.trend_analysis.empty

\* C16: each forecasting request owns its model instance: a request finds
\* no model, training data or forecast that another request wrote.
C16_RequestOwnsModel ==
    (op = "forecast_route") =>
        /\ ~obs.found.model
        /\ ~obs.found.training_data
        /\ ~obs.found.forecast_result

\* the predicted growth, in units of 1/Scale, from the last observed value to
\* the forecast point j days ahead
GrowthAhead(j) ==
    ForecastPointAhead(j).yhat - training_data[1][Len(training_data[1])].y * Scale

\* C21: for every horizon h >= 1, avg_daily_growth is the predicted growth
\* from the last observed value to the 90-day milestone point, divided by
\* the number of days that point lies ahead, min(90, h), and truncated to
\* an integer.
C21_AvgDailyGrowthPerDayAhead ==
    (ForecastOnSeries /\ ~ret.val.empty) =>
        ret.val.avg_daily_growth =
            Trunc(GrowthAhead(Min(90, arg)), Scale * Min(90, arg))

====
